---- MODULE Spec2Model ----
(***************************************************************************)
(* Model of research_gui_hierarchical.py: the in-memory forest self.data, *)
(* the QTreeWidget that projects it, the detail form, the selection and   *)
(* the persisted YAML document, with one action per event handler.        *)
(*                                                                         *)
(* Python dicts are TLA+ functions whose DOMAIN is the set of keys that    *)
(* are present.  Node dicts live in a heap (a sequence, a handle is an     *)
(* index), because the handlers mutate dicts in place through references   *)
(* returned by _find_node_by_id_recursive; lists hold handles.              *)
(***************************************************************************)
EXTENDS Integers, Sequences, FiniteSets, TLC

VARIABLES
    heap,             \* every node dict ever created, by handle
    data,             \* self.data: the top-level list (handles)
    tree_widget,      \* top-level items of the QTreeWidget (nested items)
    current_item,     \* key of tree_widget.currentItem(), 0 when there is none
    current_node_id,  \* self.current_node_id
    form,             \* id_input, name_input, status_input, description_area, notes_area
    file,             \* content of DATA_FILE
    crashed,          \* an exception escaped a slot: the process is gone
    failures_left,    \* how many more writes of DATA_FILE the file system will fail
    adds_left,        \* how many more nodes the user will add
    last              \* the handler that ran last, its inputs, the current_node_id
                      \* it started with, the outcome of its write and the message
                      \* it showed (status bar, message box)

vars == <<heap, data, tree_widget, current_item, current_node_id, form, file,
          crashed, failures_left, adds_left, last>>

----------------------------------------------------------------------------
(* Bounds *)

\* number of _add_node calls that create a node
MaxAdds == 2

\* number of writes of DATA_FILE that fail, where the file system fails
MaxWriteFailures == 1

\* number of _add_node calls that create a node, where the file system fails
MaxAddsDisk == 1

----------------------------------------------------------------------------
(* Values *)

\* Python's None (for current_node_id and dict.get of a missing key)
None == "<None>"

\* the values f"item_{uuid4().hex[:8]}" can take: as many as nodes are added
ItemIds == <<"item_1", "item_2", "item_3", "item_4", "item_5">>
IdSpace == { ItemIds[i] : i \in 1..MaxAdds }

\* what the user can type into the four editable fields
FormInputs ==
    { [name |-> "Survey", status |-> "Completed", description |-> "read papers", notes |-> "wk1"] }

\* content of DATA_FILE: not there, a document, or a truncated write
NoFile == [kind |-> "missing"]
Partial == [kind |-> "partial"]

\* dict.get(key, default)
Get(d, key, default) == IF key \in DOMAIN d THEN d[key] ELSE default

\* d[key] = value
SetKey(d, key, value) == (key :> value) @@ d

\* truthiness of node.get('children'): a non-empty list
ChildrenOf(d) == IF "children" \in DOMAIN d THEN d["children"] ELSE <<>>

----------------------------------------------------------------------------
(* _find_node_by_id_recursive *)

\* result triples; node = 0 is Python's (None, None, -1); owner = 0 is the
\* list the search started from, otherwise the handle whose 'children' list
\* holds the node; err is a RecursionError (the structure is cyclic)
NotFound == [node |-> 0, owner |-> 0, index |-> 0, err |-> FALSE]
Overflow == [node |-> 0, owner |-> 0, index |-> 0, err |-> TRUE]

RECURSIVE FindFrom(_, _, _, _, _, _)
FindFrom(hp, nodes_list, owner, i, node_id, fuel) ==
    IF i > Len(nodes_list) THEN NotFound
    ELSE LET node == nodes_list[i]
             children == ChildrenOf(hp[node])
         IN  IF Get(hp[node], "id", None) = node_id
             THEN [node |-> node, owner |-> owner, index |-> i, err |-> FALSE]
             ELSE LET sub == IF children # <<>>
                             THEN IF fuel = 0 THEN Overflow
                                  ELSE FindFrom(hp, children, node, 1, node_id, fuel - 1)
                             ELSE NotFound
                  IN  IF sub.err \/ sub.node # 0 THEN sub
                      ELSE FindFrom(hp, nodes_list, owner, i + 1, node_id, fuel)

\* Python's recursion limit is far above the depth of any acyclic forest of
\* Len(hp) dicts, so the limit is hit exactly when the search enters a cycle
find_node_by_id_recursive(hp, node_id, nodes_list) ==
    FindFrom(hp, nodes_list, 0, 1, node_id, Len(hp) + 1)

----------------------------------------------------------------------------
(* The tree widget: nested items.  An item carries the key of the
   QTreeWidgetItem object (its creation rank in the last render), the text
   f"{icon} {name}" as the pair of its parts, and the UserRole data. *)

\* status_icons.get(status, default) of _populate_tree_recursive
StatusIcon(status) ==
    CASE status = "Completed" -> "check"
      [] status = "In-Progress" -> "hourglass"
      [] status = "Unlocked" -> "open-lock"
      [] status = "Locked" -> "lock"
      [] status = "Blocked" -> "cross"
      [] status = "Planning" -> "calendar"
      [] OTHER -> "diamond"

PopulateOverflow == [items |-> <<>>, key |-> 0, err |-> TRUE]

\* items for nodes_list[i..], keys handed out in creation order from `key`
RECURSIVE PopulateFrom(_, _, _, _, _)
PopulateFrom(hp, nodes_list, i, key, fuel) ==
    IF i > Len(nodes_list) THEN [items |-> <<>>, key |-> key, err |-> FALSE]
    ELSE LET node_data == hp[nodes_list[i]]
             icon == StatusIcon(Get(node_data, "status", None))
             children == ChildrenOf(node_data)
             sub == IF children # <<>>
                    THEN IF fuel = 0 THEN PopulateOverflow
                         ELSE PopulateFrom(hp, children, 1, key + 1, fuel - 1)
                    ELSE [items |-> <<>>, key |-> key + 1, err |-> FALSE]
         IN  IF sub.err THEN PopulateOverflow
             ELSE LET tree_item == [key |-> key,
                                    text |-> <<icon, Get(node_data, "name", "Unnamed")>>,
                                    data |-> Get(node_data, "id", None),
                                    kids |-> sub.items]
                      rest == PopulateFrom(hp, nodes_list, i + 1, sub.key, fuel)
                  IN  IF rest.err THEN PopulateOverflow
                      ELSE [items |-> <<tree_item>> \o rest.items, key |-> rest.key,
                            err |-> FALSE]

\* a cyclic forest recurses until RecursionError
populate_tree_recursive(hp, nodes_list) ==
    PopulateFrom(hp, nodes_list, 1, 1, Len(hp) + 1)

\* all items in the order of QTreeWidgetItemIterator (pre-order)
RECURSIVE ItemsInOrder(_)
ItemsInOrder(items) ==
    IF items = <<>> THEN <<>>
    ELSE <<items[1]>> \o ItemsInOrder(items[1].kids) \o ItemsInOrder(Tail(items))

ItemKeys(items) == { ItemsInOrder(items)[i].key : i \in 1..Len(ItemsInOrder(items)) }

ItemByKey(items, key) ==
    LET all == ItemsInOrder(items)
    IN  all[CHOOSE i \in 1..Len(all) : all[i].key = key]

\* the key of the item whose kids hold the item `key`; 0 for a top-level item
ParentKey(items, key) ==
    LET all == ItemsInOrder(items)
        ps == { i \in 1..Len(all) : \E j \in 1..Len(all[i].kids) : all[i].kids[j].key = key }
    IN  IF ps = {} THEN 0 ELSE all[CHOOSE i \in ps : TRUE].key

\* the child items of the item `key`; of the invisible root for key 0
KidsOf(items, key) == IF key = 0 THEN items ELSE ItemByKey(items, key).kids

RemoveAt(seq, i) == SubSeq(seq, 1, i - 1) \o SubSeq(seq, i + 1, Len(seq))

InsertAt(seq, i, x) == SubSeq(seq, 1, i - 1) \o <<x>> \o SubSeq(seq, i, Len(seq))

\* QTreeWidgetItem.takeChild / takeTopLevelItem of the item `key`
RECURSIVE TakeItem(_, _)
TakeItem(items, key) ==
    IF items = <<>> THEN <<>>
    ELSE IF items[1].key = key THEN Tail(items)
    ELSE <<[items[1] EXCEPT !.kids = TakeItem(@, key)]>> \o TakeItem(Tail(items), key)

\* insertChild(pos, item) under the item `parent` (insertTopLevelItem for 0)
RECURSIVE InsertItem(_, _, _, _)
InsertItem(items, parent, pos, item) ==
    IF parent = 0 THEN InsertAt(items, pos, item)
    ELSE IF items = <<>> THEN <<>>
    ELSE <<[items[1] EXCEPT !.kids = IF items[1].key = parent
                                     THEN InsertAt(@, pos, item)
                                     ELSE InsertItem(@, parent, pos, item)]>>
         \o InsertItem(Tail(items), parent, pos, item)

----------------------------------------------------------------------------
(* The steps of the handlers, as functions from the state of the window to
   the state of the window.  A state s is the record of the variables
   (without `last`), with the message shown and the number of writes
   attempted since the handler started.  After a crash nothing runs any
   more. *)

BlankForm == [id |-> "", name |-> "", status |-> "", description |-> "", notes |-> ""]

\* _clear_details_pane: every QLineEdit and QTextEdit of the form, id included
clear_details_pane(s) == IF s.crashed THEN s ELSE [s EXCEPT !.form = BlankForm]

\* an _on_node_selected that does not set notes_area
show_node_data_without_notes(s1, f) ==
    IF f.err THEN [s1 EXCEPT !.crashed = TRUE]
    ELSE IF f.node # 0
    THEN [s1 EXCEPT !.form = [id |-> Get(s1.heap[f.node], "id", ""),
                              name |-> Get(s1.heap[f.node], "name", ""),
                              status |-> Get(s1.heap[f.node], "status", ""),
                              description |-> Get(s1.heap[f.node], "description", ""),
                              notes |-> s1.form.notes]]
    ELSE clear_details_pane(s1)

\* _on_node_selected from `if node_data:` on; f is what the lookup returned
show_node_data(s1, f) ==
    IF f.err THEN [s1 EXCEPT !.crashed = TRUE]
    ELSE IF f.node # 0
    THEN [s1 EXCEPT !.form = [id |-> Get(s1.heap[f.node], "id", ""),
                              name |-> Get(s1.heap[f.node], "name", ""),
                              status |-> Get(s1.heap[f.node], "status", ""),
                              description |-> Get(s1.heap[f.node], "description", ""),
                              notes |-> Get(s1.heap[f.node], "notes", "")]]
    ELSE clear_details_pane(s1)

\* _on_node_selected once the selected item's id is read
select_node_id(s, node_id) ==
    show_node_data([s EXCEPT !.current_node_id = node_id],
                   find_node_by_id_recursive(s.heap, node_id, s.data))

\* _on_node_selected, the slot of itemSelectionChanged
on_node_selected(s) ==
    IF s.crashed THEN s
    ELSE IF s.current_item = 0
    THEN [clear_details_pane(s) EXCEPT !.current_node_id = None]
    ELSE select_node_id(s, ItemByKey(s.tree_widget, s.current_item).data)

\* QTreeWidget.setCurrentItem: selects the item and emits
\* itemSelectionChanged, unless the item is the current one already
setCurrentItem(s, key) ==
    IF s.crashed \/ s.current_item = key THEN s
    ELSE on_node_selected([s EXCEPT !.current_item = key])

\* the loop of select_node_in_tree over the items `all` in iteration order
select_first(s, all, node_id) ==
    IF \A i \in 1..Len(all) : all[i].data # node_id THEN s
    ELSE setCurrentItem(s, all[CHOOSE i \in 1..Len(all) :
                                   /\ all[i].data = node_id
                                   /\ \A j \in 1..(i - 1) : all[j].data # node_id].key)

\* select_node_in_tree: the first item of the iteration that carries node_id
select_node_in_tree(s, node_id) ==
    IF s.crashed THEN s
    ELSE select_first(s, ItemsInOrder(s.tree_widget), node_id)

\* the end of QTreeWidget.clear(): no current item, the items deleted
delete_items(s1) ==
    IF s1.crashed THEN s1
    ELSE [s1 EXCEPT !.tree_widget = <<>>, !.current_item = 0]

\* QTreeWidget.clear(): selectionModel()->clear() first clears the selection,
\* which emits itemSelectionChanged while currentItem() is still the old
\* current item, then clears the current index; then the items are deleted
tree_widget_clear(s) ==
    IF s.crashed THEN s
    ELSE delete_items(IF s.current_item # 0 THEN on_node_selected(s) ELSE s)

\* _refresh_tree after clear(): p is what _populate_tree_recursive built
\* (err: the recursion limit was hit), then the node current_id is selected
show_items(s1, p, current_id) ==
    IF s1.crashed THEN s1
    ELSE IF p.err THEN [s1 EXCEPT !.crashed = TRUE]
    ELSE IF current_id # None /\ current_id # ""
    THEN select_node_in_tree([s1 EXCEPT !.tree_widget = p.items], current_id)
    ELSE [s1 EXCEPT !.tree_widget = p.items]

\* _refresh_tree; clear() changes neither self.data nor the node dicts, and
\* current_id is read before it
refresh_tree(s) ==
    IF s.crashed THEN s
    ELSE show_items(tree_widget_clear(s), populate_tree_recursive(s.heap, s.data),
                    s.current_node_id)

\* the document yaml.dump writes for the forest: the nested records, key
\* order and values kept (a shared dict is written once and referred to by
\* an alias, which loads as the same nesting)
RECURSIVE Dump(_, _)
Dump(hp, nodes_list) ==
    [i \in 1..Len(nodes_list) |->
        LET d == hp[nodes_list[i]]
        IN  IF "children" \in DOMAIN d
            THEN SetKey(d, "children", Dump(hp, d["children"]))
            ELSE d]

\* _commit_data_to_file; outcome is what the file system does to the write:
\* "ok", "open_fails" (the file is untouched) or "write_fails" (open(.., 'w')
\* truncated the file and the dump did not complete).  yaml.dump writes a
\* cyclic structure with an anchor and an alias.
commit_data_to_file(s, outcome) ==
    IF s.crashed THEN s
    ELSE LET s1 == [s EXCEPT !.writes = @ + 1]
         IN  CASE outcome = "ok" ->
                    [s1 EXCEPT !.file = IF populate_tree_recursive(s.heap, s.data).err
                                        THEN [kind |-> "recursive document"]
                                        ELSE [kind |-> "document",
                                              root |-> Dump(s.heap, s.data)],
                               !.status_msg = "Project saved successfully!"]
               [] outcome = "open_fails" ->
                    [s1 EXCEPT !.status_msg = "Error saving file"]
               [] OTHER ->
                    [s1 EXCEPT !.file = Partial, !.status_msg = "Error saving file"]

WriteOutcomes == {"ok", "open_fails", "write_fails"}

\* the return value of _commit_data_to_file
commit_ok(outcome) == outcome = "ok"

----------------------------------------------------------------------------
(* _rebuild_data_from_tree *)

\* a rebuild that makes the dict anew from what the item shows (its id and
\* name) in the place of keeping node_data
set_children_of_new_dict(node_data, child_list) ==
    [id |-> node_data["id"], name |-> Get(node_data, "name", "Unnamed"),
     children |-> child_list]

\* a rebuild that drops the 'children' key of a node without child items
set_children_unless_empty(node_data, child_list) ==
    IF child_list = <<>>
    THEN [k \in DOMAIN node_data \ {"children"} |-> node_data[k]]
    ELSE SetKey(node_data, "children", child_list)

\* node_data['children'] = build_list_recursive(child_item)
set_children(node_data, child_list) == SetKey(node_data, "children", child_list)

\* a child_list.insert(0, node_data) in the place of the append
child_list_insert_first(child_list, node_data) == <<node_data>> \o child_list

\* child_list.append(node_data)
child_list_append(child_list, node_data) == Append(child_list, node_data)

\* build_list_recursive over items[i..], appending to child_list.  The node
\* dicts are looked up in self.data (top: the list self.data still names
\* while the walk runs) and get their 'children' replaced in place, so a
\* later lookup searches the structure as mutated so far.
RECURSIVE BuildFrom(_, _, _, _, _)
BuildFrom(hp, top, items, i, child_list) ==
    IF i > Len(items) THEN [hp |-> hp, list |-> child_list, err |-> FALSE]
    ELSE LET child_item == items[i]
             node_id == child_item.data
             f == find_node_by_id_recursive(hp, node_id, top)
         IN  IF f.err THEN [hp |-> hp, list |-> child_list, err |-> TRUE]
             ELSE IF f.node # 0
             THEN LET sub == BuildFrom(hp, top, child_item.kids, 1, <<>>)
                  IN  IF sub.err THEN sub
                      ELSE BuildFrom([sub.hp EXCEPT ![f.node] = set_children(@, sub.list)],
                                     top, items, i + 1, child_list_append(child_list, f.node))
             ELSE BuildFrom(hp, top, items, i + 1, child_list)

build_list_recursive(hp, top, items) == BuildFrom(hp, top, items, 1, <<>>)

\* a _rebuild_data_from_tree that commits before it assigns self.data
rebuild_commit_first(s, b, outcome) ==
    IF b.err THEN [s EXCEPT !.heap = b.hp, !.crashed = TRUE]
    ELSE refresh_tree([commit_data_to_file(s, outcome)
                          EXCEPT !.heap = b.hp, !.data = b.list])

\* _rebuild_data_from_tree once build_list_recursive returned b
rebuild_with(s, b, outcome) ==
    IF b.err THEN [s EXCEPT !.heap = b.hp, !.crashed = TRUE]
    ELSE refresh_tree(commit_data_to_file(
             [s EXCEPT !.heap = b.hp, !.data = b.list], outcome))

rebuild_data_from_tree(s, outcome) ==
    IF s.crashed THEN s
    ELSE rebuild_with(s, build_list_recursive(s.heap, s.data, s.tree_widget), outcome)

----------------------------------------------------------------------------
(* The handlers *)

\* a new_node dict created with status "Unlocked"
NewNodeUnlocked(new_id) ==
    [id |-> new_id, name |-> "New Item - Edit Me", status |-> "Unlocked",
     description |-> "", notes |-> "", children |-> <<>>]

\* the dict _add_node creates
NewNode(new_id) ==
    [id |-> new_id, name |-> "New Item - Edit Me", status |-> "Locked",
     description |-> "", notes |-> "", children |-> <<>>]

\* the list that owns a found node: self.data or the owner's 'children'
OwningList(s, f) == IF f.owner = 0 THEN s.data ELSE s.heap[f.owner]["children"]

\* the state after the owning list of f is replaced by new_list (the list
\* object is mutated in place)
WithOwningList(s, f, new_list) ==
    IF f.owner = 0 THEN [s EXCEPT !.data = new_list]
    ELSE [s EXCEPT !.heap[f.owner] = SetKey(@, "children", new_list)]

\* a list.insert(0, new_node) in the place of list.append(new_node)
list_prepend(nodes_list, new_node) == <<new_node>> \o nodes_list

\* list.append(new_node)
list_append(nodes_list, new_node) == Append(nodes_list, new_node)

\* a parent_list.insert(parent_index, new_node), which puts the new node
\* before the selected one
insert_before(parent_list, parent_index, new_node) ==
    InsertAt(parent_list, parent_index, new_node)

\* parent_list.insert(parent_index + 1, new_node)
insert_after(parent_list, parent_index, new_node) ==
    InsertAt(parent_list, parent_index + 1, new_node)

\* a del parent_list[index + 1], which removes the next sibling if there is
\* one
del_next_index(parent_list, index) == RemoveAt(parent_list, index + 1)

\* del parent_list[index]
del_index(parent_list, index) == RemoveAt(parent_list, index)

\* _add_node once parent_node is looked up (f): new_node goes to the end of
\* the parent's 'children', or into parent_list right after the parent
insert_new_node(s, f, as_child, new_id) ==
    IF f.err THEN [s EXCEPT !.crashed = TRUE]
    ELSE IF f.node = 0 THEN s
    ELSE IF as_child
    THEN [s EXCEPT !.heap = Append([@ EXCEPT ![f.node] =
                                       SetKey(@, "children",
                                              list_append(ChildrenOf(@), Len(s.heap) + 1))],
                                   NewNode(new_id))]
    ELSE WithOwningList([s EXCEPT !.heap = Append(@, NewNode(new_id))], f,
                        insert_after(OwningList(s, f), f.index, Len(s.heap) + 1))

\* _add_node up to the insertion of new_node (heap handle Len(s.heap) + 1);
\* a parent that is not found returns with nothing inserted
place_new_node(s, as_child, as_toplevel, new_id) ==
    IF as_toplevel
    THEN [s EXCEPT !.heap = Append(@, NewNode(new_id)),
                   !.data = list_append(@, Len(s.heap) + 1)]
    ELSE insert_new_node(s, find_node_by_id_recursive(
                                s.heap, ItemByKey(s.tree_widget, s.current_item).data, s.data),
                         as_child, new_id)

\* an end of _add_node without select_node_in_tree(new_id)
show_new_node_unselected(s, s2, new_id, outcome) ==
    IF s2.crashed \/ Len(s2.heap) = Len(s.heap) THEN s2
    ELSE rebuild_data_from_tree(refresh_tree(s2), outcome)

\* the end of _add_node, reached when new_node was inserted (s2 holds it)
show_new_node(s, s2, new_id, outcome) ==
    IF s2.crashed \/ Len(s2.heap) = Len(s.heap) THEN s2
    ELSE select_node_in_tree(rebuild_data_from_tree(refresh_tree(s2), outcome), new_id)

\* an _add_node that adds at the top level when no item is current, in the
\* place of the warning
add_node_without_warning(s, as_child, as_toplevel, new_id, outcome) ==
    show_new_node(s, place_new_node(s, as_child, as_toplevel \/ s.current_item = 0, new_id),
                  new_id, outcome)

\* _add_node(as_child, as_toplevel); new_id is what uuid4 returns
add_node(s, as_child, as_toplevel, new_id, outcome) ==
    IF s.current_item = 0 /\ ~as_toplevel
    THEN [s EXCEPT !.status_msg = "Please select a node first."]
    ELSE show_new_node(s, place_new_node(s, as_child, as_toplevel, new_id),
                       new_id, outcome)

\* _delete_selected_node once the node is looked up (f); reply is the button
\* of the confirmation box, whose text reads node['name']
delete_found(s, f, reply, outcome) ==
    IF f.err THEN [s EXCEPT !.crashed = TRUE]
    ELSE IF f.node = 0 THEN s
    ELSE IF "name" \notin DOMAIN s.heap[f.node] THEN [s EXCEPT !.crashed = TRUE]
    ELSE IF reply = "Yes"
    THEN rebuild_data_from_tree(
             refresh_tree(clear_details_pane(
                 [WithOwningList(s, f, del_index(OwningList(s, f), f.index))
                      EXCEPT !.current_node_id = None])),
             outcome)
    ELSE s

\* _delete_selected_node
delete_selected_node(s, reply, outcome) ==
    IF s.current_node_id = None \/ s.current_node_id = "" THEN s
    ELSE delete_found(s, find_node_by_id_recursive(s.heap, s.current_node_id, s.data),
                      reply, outcome)

\* the four assignments without node['notes'] = ...
node_update_without_notes(node, fields) ==
    SetKey(SetKey(SetKey(node,
        "name", fields.name),
        "status", fields.status),
        "description", fields.description)

\* node['name'] = ..., node['status'] = ..., node['description'] = ...,
\* node['notes'] = ... with the texts of the form
node_update(node, fields) ==
    SetKey(SetKey(SetKey(SetKey(node,
        "name", fields.name),
        "status", fields.status),
        "description", fields.description),
        "notes", fields.notes)

\* _update_current_node from the commit on: the tree is refreshed only when
\* the commit returned True
commit_and_refresh(s1, outcome) ==
    IF commit_ok(outcome) THEN refresh_tree(commit_data_to_file(s1, outcome))
    ELSE commit_data_to_file(s1, outcome)

\* an _update_current_node without `if not node: return`: it commits and
\* refreshes when the node is not found
update_unguarded(s, f, outcome) ==
    IF f.err THEN [s EXCEPT !.crashed = TRUE]
    ELSE IF f.node = 0 THEN commit_and_refresh(s, outcome)
    ELSE commit_and_refresh([s EXCEPT !.heap[f.node] = node_update(@, s.form)], outcome)

\* _update_current_node once the node is looked up (f)
update_found(s, f, outcome) ==
    IF f.err THEN [s EXCEPT !.crashed = TRUE]
    ELSE IF f.node = 0 THEN s
    ELSE commit_and_refresh([s EXCEPT !.heap[f.node] = node_update(@, s.form)], outcome)

\* _update_current_node
update_current_node(s, outcome) ==
    IF s.current_node_id = None \/ s.current_node_id = "" THEN s
    ELSE update_found(s, find_node_by_id_recursive(s.heap, s.current_node_id, s.data),
                      outcome)

\* the item Qt makes current when the current item, the at-th of siblings
\* under parent, is taken out: the next sibling, else the previous sibling,
\* else the parent item, else no item (0)
current_after_take(siblings, at, parent) ==
    IF at < Len(siblings) THEN siblings[at + 1].key
    ELSE IF at > 1 THEN siblings[at - 1].key
    ELSE parent

IndexOfKey(siblings, key) == CHOOSE i \in 1..Len(siblings) : siblings[i].key = key

NextCurrent(items, key) ==
    current_after_take(KidsOf(items, ParentKey(items, key)),
                       IndexOfKey(KidsOf(items, ParentKey(items, key)), key),
                       ParentKey(items, key))

\* the end of super().dropEvent: the items after the dragged item is put in
move_item(s1, items) == IF s1.crashed THEN s1 ELSE [s1 EXCEPT !.tree_widget = items]

\* a super().dropEvent that copies the dragged item (the default action
\* without InternalMove): the item also stays where it was
copy_dropEvent(s, target, pos) ==
    [s EXCEPT !.tree_widget = InsertItem(s.tree_widget, target, pos,
                                         ItemByKey(s.tree_widget, s.current_item))]

\* super().dropEvent (QTreeWidget, InternalMove) for an accepted drop of the
\* current item: it is taken out, which moves the current index and runs
\* _on_node_selected, and inserted under target (0: top level) at pos
super_dropEvent(s, target, pos) ==
    move_item(on_node_selected(
                  [s EXCEPT !.current_item = NextCurrent(s.tree_widget, s.current_item)]),
              InsertItem(TakeItem(s.tree_widget, s.current_item), target, pos,
                         ItemByKey(s.tree_widget, s.current_item)))

\* ResearchTreeWidget.dropEvent for a drag of the current item (pressing an
\* item to drag it makes it current).  super().dropEvent either refuses the
\* drop (accepted = FALSE: nothing moves) or moves the item; then the
\* parent window rebuilds its data from the tree.
dropEvent(s, accepted, target, pos, outcome) ==
    rebuild_data_from_tree(IF accepted THEN super_dropEvent(s, target, pos) ELSE s,
                           outcome)

\* where super().dropEvent lets the current item go: under any item outside
\* the dragged subtree, or the top level, at any position among the items
\* that stay there
DropTargets(s) ==
    { tp \in ((ItemKeys(s.tree_widget)
                  \ ItemKeys(<<ItemByKey(s.tree_widget, s.current_item)>>)) \cup {0})
             \X (1..(MaxAdds + 2)) :
          tp[2] <= Len(KidsOf(TakeItem(s.tree_widget, s.current_item), tp[1])) + 1 }

----------------------------------------------------------------------------
(* The state machine *)

St ==
    [heap |-> heap, data |-> data, tree_widget |-> tree_widget,
     current_item |-> current_item, current_node_id |-> current_node_id,
     form |-> form, file |-> file, crashed |-> crashed,
     status_msg |-> "", writes |-> 0]

\* the handler `op` called with `args` took the window from St to s
Becomes(s, op, args, outcome) ==
    /\ heap' = s.heap
    /\ data' = s.data
    /\ tree_widget' = s.tree_widget
    /\ current_item' = s.current_item
    /\ current_node_id' = s.current_node_id
    /\ form' = s.form
    /\ file' = s.file
    /\ crashed' = s.crashed
    /\ failures_left' = IF s.writes > 0 /\ outcome # "ok"
                        THEN failures_left - 1 ELSE failures_left
    /\ adds_left' = IF Len(s.heap) > Len(heap) THEN adds_left - 1 ELSE adds_left
    /\ last' = [op |-> op, args |-> args,
                current_id |-> current_node_id,
                write |-> IF s.writes = 0 THEN "none" ELSE outcome,
                status_msg |-> s.status_msg]

\* the outcomes the file system may still produce
Outcomes == IF failures_left > 0 THEN WriteOutcomes ELSE {"ok"}

\* the ids uuid4 has not handed out yet
FreshIds == IdSpace \ { heap[h]["id"] : h \in 1..Len(heap) }

\* ResearchGUI.__init__ with no DATA_FILE: _load_data, then _init_ui
InitialWindow ==
    clear_details_pane(refresh_tree(
        [heap |-> <<[id |-> "root", name |-> "My Research Portfolio", children |-> <<>>]>>,
         data |-> <<1>>, tree_widget |-> <<>>, current_item |-> 0,
         current_node_id |-> None, form |-> BlankForm, file |-> NoFile,
         status_msg |-> "", crashed |-> FALSE, writes |-> 0]))

\* the window w is on the screen and no handler has run yet
Shows(w) ==
    /\ heap = w.heap
    /\ data = w.data
    /\ tree_widget = w.tree_widget
    /\ current_item = w.current_item
    /\ current_node_id = w.current_node_id
    /\ form = w.form
    /\ file = w.file
    /\ crashed = w.crashed
    /\ last = [op |-> "init", args |-> <<>>, current_id |-> None, write |-> "none",
               status_msg |-> w.status_msg]

Constructed == Shows(InitialWindow)

\* the window on a file system whose writes succeed
Init == Constructed /\ failures_left = 0 /\ adds_left = MaxAdds

\* the window on a file system that fails up to MaxWriteFailures writes
InitDisk == Constructed /\ failures_left = MaxWriteFailures /\ adds_left = MaxAddsDisk

\* the user clicks an item
SelectItem ==
    /\ ~crashed
    /\ \E key \in ItemKeys(tree_widget) :
           Becomes(setCurrentItem(St, key), "select", [key |-> key], "ok")

\* the user types into the editable fields (id_input is read-only)
EditForm ==
    /\ ~crashed
    /\ \E input \in FormInputs :
           Becomes([St EXCEPT !.form = [id |-> form.id, name |-> input.name,
                                        status |-> input.status,
                                        description |-> input.description,
                                        notes |-> input.notes]],
                   "edit", input, "ok")

AddNodeWith(ids) ==
    /\ ~crashed
    /\ adds_left > 0
    /\ \E new_id \in ids, outcome \in Outcomes,
          flags \in {<<FALSE, FALSE>>, <<TRUE, FALSE>>, <<FALSE, TRUE>>} :
           Becomes(add_node(St, flags[1], flags[2], new_id, outcome), "add",
                   [as_child |-> flags[1], as_toplevel |-> flags[2], new_id |-> new_id,
                    selected |-> IF current_item = 0 THEN None
                                 ELSE ItemByKey(tree_widget, current_item).data],
                   outcome)

\* _add_node under the uuid4 contract: the id was never handed out before
AddNode == AddNodeWith(FreshIds)

\* _add_node with any 8 hex digits uuid4().hex[:8] can be
AddNodeAnyId == AddNodeWith(IdSpace)

\* what _delete_selected_node's lookup (f) says of parent_list: the id of the
\* node whose 'children' it is (None for self.data, or when nothing is
\* found) and its length (0 when nothing is found)
parent_list_of(s, f) ==
    [parent |-> IF f.node = 0 \/ f.owner = 0 THEN None ELSE s.heap[f.owner]["id"],
     length |-> IF f.node = 0 THEN 0 ELSE Len(OwningList(s, f))]

DeleteSelectedNode ==
    /\ ~crashed
    /\ \E reply \in {"Yes", "No"}, outcome \in Outcomes :
           Becomes(delete_selected_node(St, reply, outcome), "delete",
                   [reply |-> reply,
                    parent_list |-> parent_list_of(St, find_node_by_id_recursive(
                                                          heap, current_node_id, data))],
                   outcome)

UpdateCurrentNode ==
    /\ ~crashed
    /\ \E outcome \in Outcomes :
           Becomes(update_current_node(St, outcome), "save", <<>>, outcome)

DropEvent ==
    /\ ~crashed
    /\ current_item # 0
    /\ \E outcome \in Outcomes :
          \/ Becomes(dropEvent(St, FALSE, 0, 0, outcome), "drop",
                     [accepted |-> FALSE, key |-> current_item, target |-> 0, pos |-> 0],
                     outcome)
          \/ \E tp \in DropTargets(St) :
                Becomes(dropEvent(St, TRUE, tp[1], tp[2], outcome), "drop",
                        [accepted |-> TRUE, key |-> current_item,
                         target |-> tp[1], pos |-> tp[2]],
                        outcome)

Next ==
    \/ SelectItem
    \/ EditForm
    \/ AddNode
    \/ DeleteSelectedNode
    \/ UpdateCurrentNode
    \/ DropEvent

Spec == Init /\ [][Next]_vars

\* the program on a file system that can fail writes
SpecDisk == InitDisk /\ [][Next]_vars

NextAnyId ==
    \/ SelectItem
    \/ EditForm
    \/ AddNodeAnyId
    \/ DeleteSelectedNode
    \/ UpdateCurrentNode
    \/ DropEvent

\* the program with uuid4().hex[:8] free to return any value
SpecAnyId == Init /\ [][NextAnyId]_vars

----------------------------------------------------------------------------
(* Views of the store used to state the properties *)

\* the handles reachable from nodes_list, in depth-first order (a shared
\* node is listed once per position); fuel bounds the depth
RECURSIVE WalkFrom(_, _, _)
WalkFrom(hp, nodes_list, fuel) ==
    IF nodes_list = <<>> \/ fuel = 0 THEN <<>>
    ELSE <<nodes_list[1]>> \o WalkFrom(hp, ChildrenOf(hp[nodes_list[1]]), fuel - 1)
         \o WalkFrom(hp, Tail(nodes_list), fuel)

Walk(hp, nodes_list) == WalkFrom(hp, nodes_list, Len(hp) + 1)

\* the node ids in the store
StoreIds(hp, nodes_list) ==
    { hp[Walk(hp, nodes_list)[i]]["id"] : i \in 1..Len(Walk(hp, nodes_list)) }

\* findById of the spec: the triple of _find_node_by_id_recursive
findById(hp, nodes_list, node_id) == find_node_by_id_recursive(hp, node_id, nodes_list)

InStore(hp, nodes_list, node_id) == findById(hp, nodes_list, node_id).node # 0

\* the ids of the entries of a list of handles
IdsOf(hp, nodes_list) == [i \in 1..Len(nodes_list) |-> hp[nodes_list[i]]["id"]]

\* the ids of the children list of the node with id node_id
ChildIdsOf(hp, nodes_list, node_id) ==
    IdsOf(hp, ChildrenOf(hp[findById(hp, nodes_list, node_id).node]))

\* the ids of the list that owns the node with id node_id
OwningIdsOf(hp, nodes_list, node_id) ==
    LET f == findById(hp, nodes_list, node_id)
    IN  IdsOf(hp, IF f.owner = 0 THEN nodes_list ELSE hp[f.owner]["children"])

\* the id of the parent of the node with id node_id; None at top level
ParentIdOf(hp, nodes_list, node_id) ==
    LET f == findById(hp, nodes_list, node_id)
    IN  IF f.owner = 0 THEN None ELSE hp[f.owner]["id"]

Range(seq) == { seq[i] : i \in 1..Len(seq) }

\* all ids in the store are pairwise distinct
DistinctIds(hp, nodes_list) ==
    \A i, j \in 1..Len(Walk(hp, nodes_list)) :
        i # j => hp[Walk(hp, nodes_list)[i]]["id"] # hp[Walk(hp, nodes_list)[j]]["id"]

----------------------------------------------------------------------------
(* Properties.  A step is described by last' (the handler and its inputs),
   the unprimed variables (the state it started from) and the primed
   variables (the state it left). *)

\* the step is an accepted drop that moved the dragged item from under one
\* item to under another item
DropMovesBetweenParents ==
    /\ last'.op = "drop"
    /\ last'.args.accepted
    /\ ~crashed'
    /\ DistinctIds(heap, data)
    /\ ParentKey(tree_widget, current_item) # 0
    /\ last'.args.target # 0
    /\ last'.args.target # ParentKey(tree_widget, current_item)

\* C1: after a drag-drop that moves node N from parent A to a different
\* parent B, wherever A and B are in the forest, the rebuilt store has N in
\* B's children list and not in A's children list.
C1_DropReparents ==
    [][DropMovesBetweenParents =>
        LET n == ItemByKey(tree_widget, current_item).data
            a == ItemByKey(tree_widget, ParentKey(tree_widget, current_item)).data
            b == ItemByKey(tree_widget, last'.args.target).data
        IN  /\ InStore(heap', data', b)
            /\ n \in Range(ChildIdsOf(heap', data', b))
            /\ InStore(heap', data', a) => n \notin Range(ChildIdsOf(heap', data', a))]_vars

\* the ids of the node with id node_id and of all its descendants
SubtreeIds(hp, nodes_list, node_id) ==
    StoreIds(hp, <<findById(hp, nodes_list, node_id).node>>)

\* the step is a delete that the user confirmed and that found its target
ConfirmedDelete ==
    /\ last'.op = "delete"
    /\ last'.args.reply = "Yes"
    /\ current_node_id # None
    /\ InStore(heap, data, current_node_id)
    /\ ~crashed'

\* C2: a node id leaves the store only in a confirmed delete whose target is
\* that node or one of its ancestors; a drag-drop rebuild loses no id.
C2_IdsLeaveOnlyByDelete ==
    [][\A node_id \in StoreIds(heap, data) :
          (~crashed' /\ node_id \notin StoreIds(heap', data'))
              => /\ ConfirmedDelete
                 /\ node_id \in SubtreeIds(heap, data, current_node_id)]_vars

Scalars(d) ==
    <<Get(d, "name", None), Get(d, "status", None), Get(d, "description", None),
      Get(d, "notes", None)>>

\* the step is _add_node(as_child=True) with a node of the store selected
AddChildToSelected ==
    /\ last'.op = "add"
    /\ last'.args.as_child
    /\ ~last'.args.as_toplevel
    /\ current_item # 0
    /\ InStore(heap, data, ItemByKey(tree_widget, current_item).data)
    /\ ~crashed'

AddSiblingOfSelected ==
    /\ last'.op = "add"
    /\ ~last'.args.as_child
    /\ ~last'.args.as_toplevel
    /\ current_item # 0
    /\ InStore(heap, data, ItemByKey(tree_widget, current_item).data)
    /\ ~crashed'

C6_IdsPairwiseDistinct == DistinctIds(heap, data)

\* no handle occurs at two positions of the walk from the top-level list
\* (a node that is its own descendant repeats in the walk)
ProperForest(hp, nodes_list) ==
    \A i, j \in 1..Len(Walk(hp, nodes_list)) :
        i # j => Walk(hp, nodes_list)[i] # Walk(hp, nodes_list)[j]

DocumentOf(hp, nodes_list) == [kind |-> "document", root |-> Dump(hp, nodes_list)]

\* the step is one of the mutating user actions
MutatingAction == last'.op \in {"add", "delete", "save", "drop"}

\* C8: after every mutating user action in which the file write succeeds the
\* persisted document equals the complete in-memory forest, and no action
\* changes the forest without attempting the write.
C8_PersistedAfterAction ==
    [][(MutatingAction /\ ~crashed')
        => /\ last'.write = "ok" => file' = DocumentOf(heap', data')
           /\ Dump(heap', data') # Dump(heap, data) => last'.write # "none"]_vars

\* a form save was written after an earlier write had failed, and the saved
\* values are in the file
C8_Witness ==
    /\ last.op = "save"
    /\ last.write = "ok"
    /\ failures_left < MaxWriteFailures
    /\ ~crashed
    /\ file = DocumentOf(heap, data)
    /\ \E i \in 1..Len(file.root) :
          /\ "notes" \in DOMAIN file.root[i]
          /\ file.root[i]["notes"] # ""

\* the editable fields of a node dict
FormFields == {"name", "status", "description", "notes"}

\* the step is a form save whose current id names a node of the store
SaveOfStoredNode ==
    /\ last'.op = "save"
    /\ current_node_id # None
    /\ InStore(heap, data, current_node_id)
    /\ ~crashed'

\* C9: a form save with current id c in the store sets exactly the name,
\* status, description and notes of the node with id c to the form values;
\* that node's id and children, every other node and the parent/order
\* structure of the forest are unchanged.
C9_SaveFrame ==
    [][SaveOfStoredNode =>
        LET c == findById(heap, data, current_node_id).node
        IN  /\ data' = data
            /\ Len(heap') = Len(heap)
            /\ \A h \in 1..Len(heap) : h # c => heap'[h] = heap[h]
            /\ DOMAIN heap'[c] = DOMAIN heap[c] \cup FormFields
            /\ \A k \in DOMAIN heap[c] \ FormFields : heap'[c][k] = heap[c][k]
            /\ heap'[c]["name"] = form.name
            /\ heap'[c]["status"] = form.status
            /\ heap'[c]["description"] = form.description
            /\ heap'[c]["notes"] = form.notes]_vars

\* edited values were saved into a node that has a child, in a store of
\* three nodes
C9_Witness ==
    /\ last.op = "save"
    /\ last.current_id # None
    /\ last.write = "ok"
    /\ ~crashed
    /\ InStore(heap, data, last.current_id)
    /\ Len(Walk(heap, data)) >= 3
    /\ LET c == findById(heap, data, last.current_id).node
       IN  /\ ChildrenOf(heap[c]) # <<>>
           /\ Scalars(heap[c]) = <<"Survey", "Completed", "read papers", "wk1">>

\* the step is a form save or a delete whose current id is unset or names no
\* node of the store
ActionOnNoNode ==
    /\ last'.op \in {"save", "delete"}
    /\ \/ current_node_id = None
       \/ ~InStore(heap, data, current_node_id)

\* C10: form save and delete invoked when the current id is unset or names
\* no node in the store are no-ops: the store, the persisted file, the
\* widget and the selection are unchanged and no write is attempted.
C10_NoNodeNoOp ==
    [][ActionOnNoNode =>
        /\ heap' = heap
        /\ data' = data
        /\ file' = file
        /\ tree_widget' = tree_widget
        /\ current_item' = current_item
        /\ current_node_id' = current_node_id
        /\ form' = form
        /\ ~crashed'
        /\ last'.write = "none"]_vars

\* a delete was invoked while the current id named a node that is no longer
\* in the store, and it wrote nothing
C10_Witness ==
    /\ last.op = "delete"
    /\ last.args.reply = "Yes"
    /\ last.current_id # None
    /\ ~InStore(heap, data, last.current_id)
    /\ last.write = "none"
    /\ ~crashed

\* the step is a form save of a node of the store whose write failed
FailedSave ==
    /\ SaveOfStoredNode
    /\ last'.write \in {"open_fails", "write_fails"}

\* C11: when the file write fails during a form save, the error is reported,
\* the store keeps the edited field values and the persisted file keeps its
\* previous content; a later action whose write succeeds persists the
\* in-memory forest.
C11_FailedSaveKeepsFile ==
    [][/\ FailedSave =>
            LET c == findById(heap, data, current_node_id).node
            IN  /\ last'.status_msg = "Error saving file"
                /\ Scalars(heap'[c]) =
                       <<form.name, form.status, form.description, form.notes>>
                /\ file' = file
       /\ (MutatingAction /\ last'.write = "ok" /\ ~crashed')
            => file' = DocumentOf(heap', data')]_vars

\* the step is _add_node called while the widget has no current item
AddWithoutCurrentItem ==
    /\ last'.op = "add"
    /\ current_item = 0

\* C12: _add_node as sibling or as child with no current item reports an
\* error and leaves the store, the file and the selection unchanged (no node
\* is created, no write happens); _add_node as top-level with no current
\* item succeeds.
C12_AddNeedsSelection ==
    [][AddWithoutCurrentItem =>
        IF ~last'.args.as_toplevel
        THEN /\ last'.status_msg = "Please select a node first."
             /\ last'.write = "none"
             /\ heap' = heap
             /\ data' = data
             /\ file' = file
             /\ tree_widget' = tree_widget
             /\ current_item' = current_item
             /\ current_node_id' = current_node_id
        ELSE /\ ~crashed'
             /\ last'.status_msg # "Please select a node first."
             /\ Len(data') = Len(data) + 1
             /\ heap'[data'[Len(data')]]["id"] = last'.args.new_id
             /\ last'.write # "none"]_vars

\* a child was requested with no current item, in a store that already had
\* two nodes, and the warning was shown
C12_Witness ==
    /\ last.op = "add"
    /\ last.args.as_child
    /\ ~last.args.as_toplevel
    /\ last.args.selected = None
    /\ last.status_msg = "Please select a node first."
    /\ last.write = "none"
    /\ current_item = 0
    /\ Len(Walk(heap, data)) >= 2

\* the step is _add_node(as_toplevel=True)
AddTopLevel ==
    /\ last'.op = "add"
    /\ last'.args.as_toplevel
    /\ ~crashed'

SuccessfulAdd ==
    /\ last'.op = "add"
    /\ Len(heap') > Len(heap)
    /\ ~crashed'

\* C14: after every successful add (top-level, sibling or child), whatever
\* the selection was before, the widget's current item carries the new
\* node's id and current_node_id equals that id.
C14_AddSelectsNew ==
    [][SuccessfulAdd =>
        /\ current_item' # 0
        /\ ItemByKey(tree_widget', current_item').data = last'.args.new_id
        /\ current_node_id' = last'.args.new_id]_vars

\* a sibling was added while another node was selected, and the new node is
\* the selected one
C14_Witness ==
    /\ last.op = "add"
    /\ ~last.args.as_child
    /\ ~last.args.as_toplevel
    /\ last.args.selected # None
    /\ last.current_id # None
    /\ ~crashed
    /\ current_node_id = last.args.new_id
    /\ current_item # 0
    /\ InStore(heap, data, last.args.new_id)

\* C15: after every confirmed delete the selection state at the end of the
\* handler is NoSelection: current_node_id is unset, no widget item is
\* current, and the editable form fields are blank.
C15_DeleteClearsSelection ==
    [][ConfirmedDelete =>
        /\ current_node_id' = None
        /\ current_item' = 0
        /\ form'.name = ""
        /\ form'.status = ""
        /\ form'.description = ""
        /\ form'.notes = ""]_vars

\* the id and the four scalar fields of the node with id node_id
ContentOf(hp, nodes_list, node_id) ==
    LET d == hp[findById(hp, nodes_list, node_id).node]
    IN  <<Get(d, "id", None)>> \o Scalars(d)

\* C16: a drag-drop rebuild changes position and parent only: for every node
\* id that is in the store both before and after _rebuild_data_from_tree,
\* the node's id, name, status, description and notes are the same before
\* and after.
C16_DropKeepsContent ==
    [][(last'.op = "drop" /\ ~crashed') =>
        \A node_id \in StoreIds(heap, data) \cap StoreIds(heap', data') :
            ContentOf(heap', data', node_id) = ContentOf(heap, data, node_id)]_vars

\* a drop moved an edited node under another parent and the node is still
\* in the store with the saved values
C16_Witness ==
    /\ last.op = "drop"
    /\ last.args.accepted
    /\ ~crashed
    /\ Len(Walk(heap, data)) >= 3
    /\ \E h \in Range(Walk(heap, data)) :
          /\ Scalars(heap[h]) = <<"Survey", "Completed", "read papers", "wk1">>
          /\ heap[h]["id"] = last.current_id
          /\ ParentIdOf(heap, data, heap[h]["id"]) # None

\* the step is a confirmed delete of the only child of a node
DeleteOfOnlyChild ==
    /\ ConfirmedDelete
    /\ ParentIdOf(heap, data, current_node_id) # None
    /\ Len(OwningIdsOf(heap, data, current_node_id)) = 1

\* C17: after deleting the only child of a node P, P is still in the store
\* and P's children field is present and equal to the empty sequence.
C17_OnlyChildDeleted ==
    [][DeleteOfOnlyChild =>
        LET p == findById(heap', data', ParentIdOf(heap, data, current_node_id)).node
        IN  /\ p # 0
            /\ "children" \in DOMAIN heap'[p]
            /\ heap'[p]["children"] = <<>>]_vars

\* the only child of a node that is not at the top level was deleted, and
\* its parent is in the store with an empty children list
C17_Witness ==
    /\ last.op = "delete"
    /\ last.args.reply = "Yes"
    /\ last.write = "ok"
    /\ ~crashed
    /\ last.args.parent_list.parent # None
    /\ last.args.parent_list.length = 1
    /\ InStore(heap, data, last.args.parent_list.parent)
    /\ ParentIdOf(heap, data, last.args.parent_list.parent) # None
    /\ ChildIdsOf(heap, data, last.args.parent_list.parent) = <<>>

\* _rebuild_data_from_tree's walk, run right after _refresh_tree rendered the
\* window w, leaves the forest as it is
RebuildKeepsForest(w) ==
    LET b == build_list_recursive(refresh_tree(w).heap, refresh_tree(w).data,
                                  refresh_tree(w).tree_widget)
    IN  /\ ~b.err
        /\ Dump(b.hp, b.list) = Dump(w.heap, w.data)

render(hp, nodes_list) == populate_tree_recursive(hp, nodes_list).items

\* C19: at the end of every handler (add, delete, form save, drag-drop),
\* including runs in which a file write fails, the widget is an exact
\* projection of the store: the same ids in the same arrangement and order,
\* each item showing the name and status glyph of its store node.
C19_WidgetProjectsStore ==
    [][(MutatingAction /\ ~crashed') => tree_widget' = render(heap', data')]_vars

\* the step changed the selection or re-selected after a re-render: a click
\* on another item, an add that inserted its node, a confirmed delete, a
\* form save that was written (it re-renders), or a drop
SelectionTransition ==
    /\ ~crashed'
    /\ \/ last'.op = "select" /\ current_item' # current_item
       \/ SuccessfulAdd
       \/ ConfirmedDelete
       \/ last'.op = "save" /\ last'.write = "ok"
       \/ last'.op = "drop"

\* what the form shows of a node dict
FormOf(d) ==
    [id |-> Get(d, "id", ""), name |-> Get(d, "name", ""), status |-> Get(d, "status", ""),
     description |-> Get(d, "description", ""), notes |-> Get(d, "notes", "")]

\* C20: after every selection transition the form is a projection of the
\* selection state: with the current id in the store the form's id, name,
\* status, description and notes are that node's fields; with no selection,
\* or with a current id that is not in the store, all form fields are blank.
C20_FormProjectsSelection ==
    [][SelectionTransition =>
        IF current_node_id' # None /\ InStore(heap', data', current_node_id')
        THEN form' = FormOf(heap'[findById(heap', data', current_node_id').node])
        ELSE form' = BlankForm]_vars

\* the user went from one node to another node, whose values had been
\* saved before, and the form shows that node
C20_Witness ==
    /\ last.op = "select"
    /\ last.current_id # None
    /\ last.current_id # current_node_id
    /\ current_item # 0
    /\ ~crashed
    /\ InStore(heap, data, current_node_id)
    /\ form.id = current_node_id
    /\ form.notes = "wk1"
    /\ Len(Walk(heap, data)) >= 2

====
